---- MODULE Spec2Model ----
(***************************************************************************)
(* Judging pipeline, submissions, contest life cycle and leaderboard of    *)
(* CP_platform_backend.                                                    *)
(*                                                                         *)
(* judge/views.py SubmissionView.post creates a judge.Submission row in    *)
(* 'Pending', runs run_judge over the problem's TestCase rows, stores the   *)
(* returned status and, on 'Accepted', increments                          *)
(* UserStatistics.total_solved.  Each HTTP request is a process whose      *)
(* position is req[r].pc; requests interleave at database accesses and at  *)
(* the blocking subprocess.run call.                                       *)
(*                                                                         *)
(* The views of the submissions and contest applications run to their      *)
(* response in one step, behind ContestStateMiddleware.  No view stores a   *)
(* Contest or a ContestItem (ContestCreateSerializer and the item_type       *)
(* lookup raise), so the initial states hold the rows the tables are       *)
(* loaded with.                                                            *)
(***************************************************************************)
EXTENDS Integers, Sequences, FiniteSets, TLC

\* ---- bounds of the model ----
MaxTests == 2   \* TestCase rows per problem
MaxSubs == 2    \* rows of submissions.Submission
MaxTime == 3    \* last value of the clock
MaxElapsed == 4 \* longest run of a program, in seconds

\* two requests to SubmissionView are served concurrently
Requests == {1, 2}
Users == {"u1", "u2"}
\* the rows of judge.Problem; the same names stand for the rows of
\* problems.Problem, which the submissions and contest applications use
Problems == {"p1", "p2"}
\* users that have a UserStatistics row (no handler creates or deletes one)
StatsUsers == {"u1"}

\* request.data.get('problem_id'): an existing problem, an id with no row, or absent
NoSuchProblem == "p404"
Absent == ""
ProblemIdInputs == Problems \cup {NoSuchProblem, Absent}

Contests == {"c1", "c2"}
\* contest.models.Contest.STATE_CHOICES
STATE_CHOICES == {"DRAFT", "SCHEDULED", "LIVE", "ENDED", "ARCHIVED"}
\* created_by and managers of every contest; "u2" manages nothing
ContestManagers == {"u1"}
\* contest_item_id of the request body: 0 is an absent (falsy) value
ContestItemIdInputs == {0, 1, 2}

\* judge.models.Submission.STATUS_CHOICES
STATUS_CHOICES ==
    {"Pending", "Accepted", "Wrong Answer", "Time Limit Exceeded",
     "Memory Limit Exceeded", "Runtime Error", "Compilation Error"}

VARIABLES
    test_cases,     \* judge.TestCase rows: number of rows per problem
    submissions,    \* judge.Submission table: sequence of rows, id = index
    statistics,     \* accounts.UserStatistics: user -> total_solved (users with a row)
    results,        \* submissions.SubmissionResult table (set of rows)
    run,            \* the latest subprocess.run call of run_judge, as observed; NoRun before
    listing,        \* the response of the result list view that is answering; NoListing otherwise
    req,            \* per request: position and local variables of SubmissionView.post
    subs,           \* submissions.Submission table: rows in order of creation
    contests,       \* contest.Contest rows: contest -> state, is_published, start_time, end_time
    contest_items,  \* contest.ContestItem rows
    participants,   \* contest.ContestParticipant rows: contest -> set of users
    now,            \* django.utils.timezone.now()
    response,       \* the response of the contest request that is answering; NoResponse otherwise
    board           \* the response of the leaderboard view that is answering; NoBoard otherwise

judge_vars == <<test_cases, submissions, statistics, req>>
submit_vars == <<subs, contests, contest_items, participants, now, response, board>>
vars == <<test_cases, submissions, statistics, results, run, listing, req,
          subs, contests, contest_items, participants, now, response, board>>

\* ---- outcome of one subprocess.run call (judge/views.py:84-90) ----
\* exc: the exception raised by the call, returncode and match (stdout.strip()
\* == expected_output.strip()) of the finished process otherwise.
RawOutcomes ==
    [exc : {"none"}, returncode : {0, 1}, match : BOOLEAN]
    \cup [exc : {"TimeoutExpired", "Exception"}, returncode : {0}, match : {FALSE}]

\* the process exits with code 0 and prints the expected output
PassOutcome == [exc |-> "none", returncode |-> 0, match |-> TRUE]

\* What the executor yields for one testcase: the first call and what a
\* second call would yield.  The program is deterministic, so only an
\* executor exception can differ between the two calls; the second call
\* then fails the same way or runs the program to a correct answer.
\* run_judge makes the first call only.
Attempts ==
    {a \in [1..2 -> RawOutcomes] :
        /\ a[1].exc # "Exception" => a[2] = a[1]
        /\ a[1].exc = "Exception" => a[2] \in {a[1], PassOutcome}}

\* python -c on a source that does not compile exits with a non-zero code
\* without reading the testcase.
CompileFailure(raw) ==
    raw.exc = "Exception" \/ (raw.exc = "none" /\ raw.returncode # 0)

\* variant of JudgeTest: an executor exception is reported as a judge error
JudgeTestError(raw) ==
    IF raw.exc = "TimeoutExpired" THEN "Time Limit Exceeded"
    ELSE IF raw.exc = "Exception" THEN "Error"
    ELSE IF raw.returncode # 0 THEN "Runtime Error"
    ELSE IF ~raw.match THEN "Wrong Answer"
    ELSE "continue"

\* variant of JudgeTest: an executor exception is swallowed
JudgeTestSwallow(raw) ==
    IF raw.exc = "TimeoutExpired" THEN "Time Limit Exceeded"
    ELSE IF raw.exc = "Exception" THEN "continue"
    ELSE IF raw.returncode # 0 THEN "Runtime Error"
    ELSE IF ~raw.match THEN "Wrong Answer"
    ELSE "continue"

\* ---- SubmissionView.run_judge, body of the for loop (judge/views.py:82-100) ----
\* "continue" stands for falling through to the next iteration.
JudgeTest(raw) ==
    IF raw.exc = "TimeoutExpired" THEN "Time Limit Exceeded"
    ELSE IF raw.exc = "Exception" THEN "Runtime Error"
    ELSE IF raw.returncode # 0 THEN "Runtime Error"
    ELSE IF ~raw.match THEN "Wrong Answer"
    ELSE "continue"

\* variant of NextId: the id is taken from the row count read before the insert
CountId(table) == IF Len(table) = 0 THEN 1 ELSE Len(table)

\* Submission.objects.create: the database assigns the next unused id
NextId(table) == Len(table) + 1

\* variant of SaveStatus: an update filtered by user and problem instead of id
SaveStatusAll(table, id, st) ==
    [i \in DOMAIN table |->
        IF table[i].user = table[id].user /\ table[i].problem = table[id].problem
        THEN [table[i] EXCEPT !.status = st]
        ELSE table[i]]

\* submission.save(): writes the row of this instance's primary key
SaveStatus(table, id, st) == [table EXCEPT ![id].status = st]

\* variant of Increment: a user already counted as a solver is not counted again
IncrementOnce(n) == IF n = 0 THEN 1 ELSE n

\* stats.total_solved += 1
Increment(n) == n + 1

\* the locals of a request that has not started; they are gone again once
\* the response is returned
IdleRequest ==
    [pc |-> "idle", user |-> "u1", problem |-> "p1", compiles |-> TRUE,
     submission |-> 0, n |-> 0, trace |-> <<>>, final_status |-> "",
     stats |-> 0, response |-> 0]

\* return Response(..., status=code)
Respond(code) == [IdleRequest EXCEPT !.pc = "done", !.response = code]

\* a Contest row with the defaults of its fields (contest/models.py:31-43):
\* DRAFT, unpublished; c1 runs in [1, 2), c2 in [2, 3)
NewContest(c) ==
    [state |-> "DRAFT", is_published |-> FALSE,
     start_time |-> IF c = "c1" THEN 1 ELSE 2,
     end_time |-> IF c = "c1" THEN 2 ELSE 3]

\* no testcase was executed
NoRun ==
    [language |-> Absent, time_limit |-> 0, elapsed |-> 0, executed |-> FALSE,
     exc |-> "none", status |-> Absent]

\* no request for the results of a submission is answering
NoListing == [code |-> 0, rows |-> <<>>]

\* no request of the contest application is answering
NoResponse ==
    [op |-> "none", user |-> Absent, contest |-> Absent, arg |-> Absent,
     item |-> 0, code |-> 0]
NoBoard == [contest |-> Absent, code |-> 0, rows |-> <<>>]

Init ==
    /\ test_cases = [p \in Problems |-> 0]
    /\ submissions = <<>>
    /\ statistics = [u \in StatsUsers |-> 0]
    /\ results = {}
    /\ run = NoRun
    /\ listing = NoListing
    /\ req = [r \in Requests |-> IdleRequest]
    /\ subs = <<>>
    /\ contests = [c \in Contests |-> NewContest(c)]
    /\ contest_items = {[id |-> 1, contest |-> "c1", problem |-> "p1", score |-> 100]}
    /\ participants = [c \in Contests |-> {"u1"}]
    /\ now = 0
    /\ response = NoResponse
    /\ board = NoBoard

\* ---- SubmissionView.post, lines 41-60: validation and creation ----
Post(r, u, pid, fields_ok, compiles) ==
    /\ req[r].pc = "idle"
    /\ IF pid = Absent \/ ~fields_ok
       THEN /\ req' = [req EXCEPT ![r] = Respond(400)]
            /\ UNCHANGED submissions
       ELSE IF pid \notin Problems
       THEN /\ req' = [req EXCEPT ![r] = Respond(404)]
            /\ UNCHANGED submissions
       ELSE /\ submissions' = Append(submissions,
                                [user |-> u, problem |-> pid, status |-> "Pending"])
            /\ req' = [req EXCEPT ![r].pc = "run_judge", ![r].user = u,
                                  ![r].problem = pid, ![r].compiles = compiles,
                                  ![r].submission = NextId(submissions)]
    /\ UNCHANGED <<test_cases, statistics, results, run, listing, submit_vars>>

\* ---- run_judge, lines 77-79: test_cases.exists() ----
Exists(r) ==
    /\ req[r].pc = "run_judge"
    /\ IF test_cases[req[r].problem] = 0
       THEN req' = [req EXCEPT ![r].pc = "save", ![r].final_status = "Accepted"]
       ELSE req' = [req EXCEPT ![r].pc = "fetch"]
    /\ UNCHANGED <<test_cases, submissions, statistics, results, run, listing, submit_vars>>

\* ---- run_judge, line 81: the for statement evaluates the queryset once ----
Fetch(r) ==
    /\ req[r].pc = "fetch"
    /\ req' = [req EXCEPT ![r].pc = "loop", ![r].n = test_cases[req[r].problem]]
    /\ UNCHANGED <<test_cases, submissions, statistics, results, run, listing, submit_vars>>

\* variant of RunTest: the loop does not return at a testcase that fails; it
\* runs every testcase and returns the verdict of the last one that failed
RunTestRunAll(r, a) ==
    /\ req[r].pc = "loop"
    /\ Len(req[r].trace) < req[r].n
    /\ ~req[r].compiles => (CompileFailure(a[1]) /\ CompileFailure(a[2]))
    /\ LET trace == Append(req[r].trace, a)
           v == JudgeTest(a[1])
           last == IF v # "continue" THEN v ELSE req[r].final_status
       IN IF Len(trace) = req[r].n
          THEN req' = [req EXCEPT ![r].trace = trace, ![r].pc = "save",
                          ![r].final_status = IF last = "" THEN "Accepted" ELSE last]
          ELSE req' = [req EXCEPT ![r].trace = trace, ![r].final_status = last]
    /\ UNCHANGED <<test_cases, submissions, statistics, results, run, listing, submit_vars>>

\* ---- run_judge, lines 82-102: one iteration, and the return after the loop ----
RunTest(r, a) ==
    /\ req[r].pc = "loop"
    /\ Len(req[r].trace) < req[r].n
    /\ ~req[r].compiles => (CompileFailure(a[1]) /\ CompileFailure(a[2]))
    /\ LET trace == Append(req[r].trace, a)
           v == JudgeTest(a[1])
       IN IF v # "continue"
          THEN req' = [req EXCEPT ![r].trace = trace, ![r].pc = "save",
                                  ![r].final_status = v]
          ELSE IF Len(trace) = req[r].n
          THEN req' = [req EXCEPT ![r].trace = trace, ![r].pc = "save",
                                  ![r].final_status = "Accepted"]
          ELSE req' = [req EXCEPT ![r].trace = trace]
    /\ UNCHANGED <<test_cases, submissions, statistics, results, run, listing, submit_vars>>

\* variant of Save: the statistics update is not guarded by the verdict
SaveNoGuard(r) ==
    /\ req[r].pc = "save"
    /\ submissions' = SaveStatus(submissions, req[r].submission, req[r].final_status)
    /\ req' = [req EXCEPT ![r].pc = "stats"]
    /\ UNCHANGED <<test_cases, statistics, results, run, listing, submit_vars>>

\* ---- post, lines 63-65: submission.status = final_status; submission.save() ----
Save(r) ==
    /\ req[r].pc = "save"
    /\ submissions' = SaveStatus(submissions, req[r].submission, req[r].final_status)
    /\ IF req[r].final_status = "Accepted"
       THEN req' = [req EXCEPT ![r].pc = "stats"]
       ELSE req' = [req EXCEPT ![r] = Respond(201)]
    /\ UNCHANGED <<test_cases, statistics, results, run, listing, submit_vars>>

\* ---- post, lines 69-70: stats = getattr(request.user, 'statistics', None) ----
GetStats(r) ==
    /\ req[r].pc = "stats"
    /\ IF req[r].user \in DOMAIN statistics
       THEN req' = [req EXCEPT ![r].pc = "stats_save",
                               ![r].stats = statistics[req[r].user]]
       ELSE req' = [req EXCEPT ![r] = Respond(201)]
    /\ UNCHANGED <<test_cases, submissions, statistics, results, run, listing, submit_vars>>

\* ---- post, lines 71-74: stats.total_solved += 1; stats.save() ----
SaveStats(r) ==
    /\ req[r].pc = "stats_save"
    /\ statistics' = [statistics EXCEPT ![req[r].user] = Increment(req[r].stats)]
    /\ req' = [req EXCEPT ![r] = Respond(201)]
    /\ UNCHANGED <<test_cases, submissions, results, run, listing, submit_vars>>

\* ---- AdminTestCaseCreateView.post (judge/views.py:145-150) ----
AdminTestCaseCreate(p) ==
    /\ test_cases[p] < MaxTests
    /\ test_cases' = [test_cases EXCEPT ![p] = test_cases[p] + 1]
    /\ UNCHANGED <<submissions, statistics, results, run, listing, req, submit_vars>>

\* ---- submissions.Submission.clean (submissions/models.py:110-141) ----
\* None is "" for a problem or a contest, 0 for a contest item
CleanTargetOnly(row) ==
    /\ ~(row.problem = Absent /\ row.contest_item = 0)
    /\ ~(row.problem # Absent /\ row.contest_item # 0)

Clean(row) ==
    /\ ~(row.problem = Absent /\ row.contest_item = 0)
    /\ ~(row.problem # Absent /\ row.contest_item # 0)
    /\ row.contest_item # 0 => row.contest # Absent
    /\ (row.contest_item # 0 /\ row.contest # Absent) =>
           \E it \in contest_items : it.id = row.contest_item /\ it.contest = row.contest

\* SubmissionCreateSerializer.validate (submissions/serializers.py:158-173)
Validate(problem_id, contest_item_id) ==
    /\ ~(problem_id = Absent /\ contest_item_id = 0)
    /\ ~(problem_id # Absent /\ contest_item_id # 0)

\* SubmissionCreateSerializer.create (submissions/serializers.py:175-193):
\* the set of rows it saves, empty when ContestItem.objects.get or
\* full_clean raises
Create(u, problem_id, contest_item_id) ==
    IF problem_id # Absent
    THEN {row \in {[user |-> u, problem |-> problem_id, contest_item |-> 0,
                    contest |-> Absent, status |-> "PENDING", created_at |-> now]} :
            problem_id \in Problems /\ Clean(row)}
    ELSE {row \in {[user |-> u, problem |-> Absent, contest_item |-> it.id,
                    contest |-> it.contest, status |-> "PENDING", created_at |-> now] :
                        it \in {x \in contest_items : x.id = contest_item_id}} :
            Clean(row)}

\* variant of MiddlewareUpdate: the first update selects by the time window
\* alone, whatever the state stored
MiddlewareUpdateAnyState(cs, t) ==
    LET live == [c \in DOMAIN cs |->
                    IF /\ cs[c].start_time <= t
                       /\ cs[c].end_time > t
                    THEN [cs[c] EXCEPT !.state = "LIVE"]
                    ELSE cs[c]]
    IN [c \in DOMAIN cs |->
           IF live[c].state = "LIVE" /\ live[c].end_time <= t
           THEN [live[c] EXCEPT !.state = "ENDED"]
           ELSE live[c]]

\* ContestStateMiddleware.__call__ (contest/middleware.py:15-30): the two
\* bulk updates, run at time t ahead of the view of every request.  A contest
\* in DRAFT is not touched
MiddlewareUpdate(cs, t) ==
    LET live == [c \in DOMAIN cs |->
                    IF /\ cs[c].state = "SCHEDULED"
                       /\ cs[c].start_time <= t
                       /\ cs[c].end_time > t
                    THEN [cs[c] EXCEPT !.state = "LIVE"]
                    ELSE cs[c]]
    IN [c \in DOMAIN cs |->
           IF live[c].state = "LIVE" /\ live[c].end_time <= t
           THEN [live[c] EXCEPT !.state = "ENDED"]
           ELSE live[c]]

\* ---- SubmissionCreateView.post (submissions/views.py:36-48) ----
SubmissionCreate(u, problem_id, contest_item_id, fields_valid) ==
    /\ Len(subs) < MaxSubs
    /\ fields_valid /\ Validate(problem_id, contest_item_id)
    /\ \E row \in Create(u, problem_id, contest_item_id) : subs' = Append(subs, row)
    /\ contests' = MiddlewareUpdate(contests, now)
    /\ response' = NoResponse
    /\ board' = NoBoard
    /\ UNCHANGED <<judge_vars, results, run, listing, contest_items, participants, now>>

\* ---- ContestSubmissionCreateView.post (contest/views.py:1071-1119) ----
ContestSubmissionCreate(u, c, problem_slug, problem_id, contest_item_id, fields_valid) ==
    /\ Len(subs) < MaxSubs
    /\ contests[c].start_time <= now /\ now < contests[c].end_time
    /\ problem_slug \in Problems
    /\ \E it \in contest_items : it.contest = c /\ it.problem = problem_slug
    /\ fields_valid /\ Validate(problem_id, contest_item_id)
    /\ LET row == [user |-> u, problem |-> problem_slug, contest_item |-> 0,
                   contest |-> c, status |-> "PENDING", created_at |-> now]
       IN /\ Clean(row)
          /\ subs' = Append(subs, row)
    /\ contests' = MiddlewareUpdate(contests, now)
    /\ response' = [op |-> "submit", user |-> u, contest |-> c, arg |-> problem_slug,
                    item |-> 0, code |-> 201]
    /\ board' = NoBoard
    /\ UNCHANGED <<judge_vars, results, run, listing, contest_items, participants, now>>

\* the statuses given to the rows saved directly
SaveStatuses == {"PENDING", "AC"}

\* the instances Submission.save is called on: the foreign keys of an
\* instance refer to rows that exist
SaveRows ==
    [user : Users, problem : Problems \cup {Absent},
     contest_item : {0} \cup {it.id : it \in contest_items},
     contest : Contests \cup {Absent}, status : SaveStatuses, created_at : {now}]

\* Meta.constraints of Submission (submissions/models.py:94-107):
\* submission_single_target and single_ac_per_contest_item
Constraints(table, row) ==
    /\ (row.problem # Absent /\ row.contest_item = 0)
           \/ (row.problem = Absent /\ row.contest_item # 0)
    /\ (row.status = "AC" /\ row.contest_item # 0) =>
           ~\E i \in 1..Len(table) :
                /\ table[i].status = "AC"
                /\ table[i].user = row.user
                /\ table[i].contest_item = row.contest_item

\* ---- Submission.save (submissions/models.py:142-145) on a new instance ----
SubmissionSave(row) ==
    /\ Len(subs) < MaxSubs
    /\ Clean(row)
    /\ Constraints(subs, row)
    /\ subs' = Append(subs, row)
    /\ response' = NoResponse
    /\ board' = NoBoard
    /\ UNCHANGED <<judge_vars, results, run, listing, contests, contest_items, participants, now>>

\* time passes between requests
Tick ==
    /\ now < MaxTime
    /\ now' = now + 1
    /\ response' = NoResponse
    /\ board' = NoBoard
    /\ listing' = NoListing
    /\ UNCHANGED <<judge_vars, results, run, subs, contests, contest_items, participants>>

Next ==
    \/ \E r \in Requests, u \in Users, pid \in ProblemIdInputs,
          fields_ok \in BOOLEAN, compiles \in BOOLEAN :
            Post(r, u, pid, fields_ok, compiles)
    \/ \E r \in Requests : Exists(r)
    \/ \E r \in Requests : Fetch(r)
    \/ \E r \in Requests, a \in Attempts : RunTest(r, a)
    \/ \E r \in Requests : Save(r)
    \/ \E r \in Requests : GetStats(r)
    \/ \E r \in Requests : SaveStats(r)
    \/ \E p \in Problems : AdminTestCaseCreate(p)

Spec == Init /\ [][Next]_vars

\* no request other than r is inside SubmissionView.post
Alone(r) == \A q \in Requests \ {r} : req[q].pc \in {"idle", "done"}

\* the requests to SubmissionView processed one after the other: a request
\* enters post only when no other request is inside it
SeqNext ==
    \/ \E r \in Requests, u \in Users, pid \in ProblemIdInputs,
          fields_ok \in BOOLEAN, compiles \in BOOLEAN :
            Alone(r) /\ Post(r, u, pid, fields_ok, compiles)
    \/ \E r \in Requests : Exists(r)
    \/ \E r \in Requests : Fetch(r)
    \/ \E r \in Requests, a \in Attempts : RunTest(r, a)
    \/ \E r \in Requests : Save(r)
    \/ \E r \in Requests : GetStats(r)
    \/ \E r \in Requests : SaveStats(r)
    \/ \E p \in Problems : AdminTestCaseCreate(p)

SeqSpec == Init /\ [][SeqNext]_vars

\* the rows saved directly next to the endpoints' rows: accepted ones of "u1"
SubmitRows == {row \in SaveRows : row.user = "u1" /\ row.status = "AC"}

\* ---- the endpoints of the submissions and contest applications ----
SubmitNext ==
    \/ \E u \in Users, problem_id \in ProblemIdInputs,
          contest_item_id \in ContestItemIdInputs, fields_valid \in BOOLEAN :
            SubmissionCreate(u, problem_id, contest_item_id, fields_valid)
    \/ \E u \in Users, c \in Contests, problem_slug \in ProblemIdInputs,
          problem_id \in ProblemIdInputs, contest_item_id \in ContestItemIdInputs,
          fields_valid \in BOOLEAN :
            ContestSubmissionCreate(u, c, problem_slug, problem_id,
                                    contest_item_id, fields_valid)
    \/ \E row \in SubmitRows : SubmissionSave(row)
    \/ Tick

SubmitSpec == Init /\ [][SubmitNext]_vars

\* every request that arrives is served, and time does not stop
FairSubmitSpec == SubmitSpec /\ WF_vars(SubmitNext)

\* ---- the leaderboard views of the contest application ----

\* accounts.User.id: the primary key order_by('user') sorts on
UserId(u) == IF u = "u1" THEN 1 ELSE 2

\* the position of a row in order_by('user', 'created_at')
RowBefore(a, b) ==
    \/ UserId(a.user) < UserId(b.user)
    \/ UserId(a.user) = UserId(b.user) /\ a.created_at < b.created_at

RECURSIVE OrderBy(_)
OrderBy(rows) ==
    IF rows = <<>> THEN <<>>
    ELSE LET rest == OrderBy(SubSeq(rows, 1, Len(rows) - 1))
             x == rows[Len(rows)]
             k == Cardinality({i \in 1..Len(rest) : ~RowBefore(x, rest[i])})
         IN SubSeq(rest, 1, k) \o <<x>> \o SubSeq(rest, k + 1, Len(rest))

\* Submission.objects.filter(contest=contest, status='AC')
\*     .order_by('user', 'created_at')
IsContestAC(c, row) == row.contest = c /\ row.status = "AC"
AcRows(c) == OrderBy(SelectSeq(subs, LAMBDA row : IsContestAC(c, row)))

\* sub.problem.id raises AttributeError when the row targets a contest item
Raises(c) == \E i \in 1..Len(AcRows(c)) : AcRows(c)[i].problem = Absent

\* the loop over the submissions: the dict in insertion order.  The problems
\* of an entry are kept as a set: among rows of equal created_at the order of
\* the list is the database's
RECURSIVE Build(_, _)
Build(rows, leaderboard) ==
    IF rows = <<>> THEN leaderboard
    ELSE LET sub == Head(rows)
             lb == IF \E i \in 1..Len(leaderboard) : leaderboard[i].user = sub.user
                   THEN leaderboard
                   ELSE Append(leaderboard,
                               [user |-> sub.user, user_id |-> UserId(sub.user),
                                total_score |-> 0, problems |-> {}])
             k == CHOOSE i \in 1..Len(lb) : lb[i].user = sub.user
         IN Build(Tail(rows),
                  IF \E p \in lb[k].problems : p.problem_id = sub.problem
                  THEN lb
                  ELSE [lb EXCEPT
                          ![k].problems = @ \cup {[problem_id |-> sub.problem,
                                                   solved_at |-> sub.created_at]},
                          ![k].total_score = @ + 100])

\* sorted(leaderboard.values(), key=total_score, reverse=True): one entry is
\* placed after the entries that do not score less than it
InsertBeforeTies(x, sorted) ==
    LET k == Cardinality({i \in 1..Len(sorted) : sorted[i].total_score > x.total_score})
    IN SubSeq(sorted, 1, k) \o <<x>> \o SubSeq(sorted, k + 1, Len(sorted))

Insert(x, sorted) ==
    LET k == Cardinality({i \in 1..Len(sorted) : sorted[i].total_score >= x.total_score})
    IN SubSeq(sorted, 1, k) \o <<x>> \o SubSeq(sorted, k + 1, Len(sorted))

RECURSIVE Sorted(_)
Sorted(values) ==
    IF values = <<>> THEN <<>>
    ELSE Insert(values[Len(values)], Sorted(SubSeq(values, 1, Len(values) - 1)))

\* the body both views compute
Leaderboard(c) ==
    IF Raises(c)
    THEN [contest |-> c, code |-> 500, rows |-> <<>>]
    ELSE [contest |-> c, code |-> 200, rows |-> Sorted(Build(AcRows(c), <<>>))]

\* ---- ContestLeaderboardView.get (contest/views.py:1207-1246) ----
LeaderboardGet(c) ==
    /\ board' = Leaderboard(c)
    /\ contests' = MiddlewareUpdate(contests, now)
    /\ response' = NoResponse
    /\ UNCHANGED <<judge_vars, results, run, listing, subs, contest_items, participants, now>>

\* ---- ManagerContestLeaderboardView.get (contest/views.py:1385-1441) ----
\* (the submissions_count of a problem is left out of the entries)
ManagerLeaderboardGet(u, c) ==
    /\ board' = IF u \in ContestManagers
                THEN Leaderboard(c)
                ELSE [contest |-> c, code |-> 403, rows |-> <<>>]
    /\ contests' = MiddlewareUpdate(contests, now)
    /\ response' = NoResponse
    /\ UNCHANGED <<judge_vars, results, run, listing, subs, contest_items, participants, now>>

\* the values of ContestItem.score, an IntegerField of default 100, the item
\* of contest c1 is stored with
ItemScores == {100, 50}

\* a contest with its item, its participants joined, no submission yet
BoardInit ==
    /\ test_cases = [p \in Problems |-> 0]
    /\ submissions = <<>>
    /\ statistics = [u \in StatsUsers |-> 0]
    /\ results = {}
    /\ run = NoRun
    /\ listing = NoListing
    /\ req = [r \in Requests |-> IdleRequest]
    /\ subs = <<>>
    /\ contests = [c \in Contests |-> NewContest(c)]
    /\ \E score \in ItemScores :
          contest_items = {[id |-> 1, contest |-> "c1", problem |-> "p1", score |-> score]}
    /\ participants = [c \in Contests |-> Users]
    /\ now = 0
    /\ response = NoResponse
    /\ board = NoBoard

\* the submissions saved here: accepted ones of both users for a problem or
\* the item of contest c1, and of "u1" a pending one for p1 in c1 and an
\* accepted one for p1 in contest c2
BoardRows ==
    {row \in SaveRows :
        \/ row.contest = "c1" /\ row.status = "AC"
        \/ row.contest = "c1" /\ row.problem = "p1" /\ row.user = "u1"
        \/ row.contest = "c2" /\ row.problem = "p1" /\ row.user = "u1"
              /\ row.status = "AC"}

BoardNext ==
    \/ \E row \in BoardRows : SubmissionSave(row)
    \/ \E c \in Contests : LeaderboardGet(c)
    \/ \E u \in Users, c \in Contests : ManagerLeaderboardGet(u, c)
    \/ Tick

BoardSpec == BoardInit /\ [][BoardNext]_vars

\* ---- the life cycle of a contest ----

\* Contest.can_transition_to (contest/models.py:69-87), self.state being state
CanTransitionTo(state, new_state) ==
    CASE state = "DRAFT" -> new_state \in {"SCHEDULED", "ARCHIVED"}
      [] state = "SCHEDULED" -> new_state \in {"LIVE", "ARCHIVED"}
      [] state = "LIVE" -> new_state \in {"ENDED"}
      [] state = "ENDED" -> new_state \in {"ARCHIVED"}
      [] OTHER -> FALSE

\* Contest.clean (contest/models.py:89-102) of a stored contest: original is
\* the row read back, self the instance to save.  can_transition_to is
\* called on self, whose state already is the new one
ContestClean(original, self) ==
    /\ original.state # self.state => CanTransitionTo(self.state, self.state)
    /\ self.start_time < self.end_time

\* is_manager of the contest views: created_by or one of the managers
IsManager(u, c) == u \in ContestManagers

Answer(op, u, c, arg, item, code) ==
    [op |-> op, user |-> u, contest |-> c, arg |-> arg, item |-> item, code |-> code]

\* ---- Contest.save (contest/models.py:108-119) of a stored contest whose
\* state was set to new_state; a ValidationError is code 400 ----
ContestSave(c, new_state) ==
    LET self == [contests[c] EXCEPT !.state = new_state]
        valid == ContestClean(contests[c], self)
    IN /\ contests' = IF valid THEN [contests EXCEPT ![c] = self] ELSE contests
       /\ response' = Answer("save", Absent, c, new_state, 0, IF valid THEN 200 ELSE 400)
       /\ board' = NoBoard
       /\ UNCHANGED <<judge_vars, results, run, listing, subs, contest_items, participants, now>>

\* ---- a request to a view that writes nothing: ContestStateMiddleware.__call__
\* (contest/middleware.py:15-33) ----
ContestStateMiddleware ==
    /\ contests' = MiddlewareUpdate(contests, now)
    /\ response' = Answer("request", Absent, Absent, Absent, 0, 200)
    /\ board' = NoBoard
    /\ UNCHANGED <<judge_vars, results, run, listing, subs, contest_items, participants, now>>

\* ---- ContestPublishView.post (contest/views.py:349-390); the
\* ValidationError of contest.save() is not caught: code 500 ----
Publish(u, c) ==
    LET cs == MiddlewareUpdate(contests, now)
        self == [cs[c] EXCEPT !.state = "SCHEDULED", !.is_published = TRUE]
        code == IF ~IsManager(u, c) THEN 403
                ELSE IF cs[c].state # "DRAFT" THEN 400
                ELSE IF ~\E it \in contest_items : it.contest = c THEN 400
                ELSE IF ~ContestClean(cs[c], self) THEN 500
                ELSE 200
    IN /\ contests' = IF code = 200 THEN [cs EXCEPT ![c] = self] ELSE cs
       /\ response' = Answer("publish", u, c, Absent, 0, code)
       /\ board' = NoBoard
       /\ UNCHANGED <<judge_vars, results, run, listing, subs, contest_items, participants, now>>

\* ---- ContestUpdateView.put, patch (contest/views.py:281-337).
\* ContestCreateSerializer.Meta.fields names "logo" and "rules", which Contest
\* does not have: building the serializer's fields raises ImproperlyConfigured
\* for every request that passes the guard, code 500 ----
Update(u, c) ==
    LET cs == MiddlewareUpdate(contests, now)
        code == IF ~IsManager(u, c) \/ cs[c].state \notin {"DRAFT", "SCHEDULED"}
                THEN 403 ELSE 500
    IN /\ contests' = cs
       /\ response' = Answer("update", u, c, Absent, 0, code)
       /\ board' = NoBoard
       /\ UNCHANGED <<judge_vars, results, run, listing, subs, contest_items, participants, now>>

\* ---- ContestAddItemView.post (contest/views.py:469-565), item_type PROBLEM.
\* The property item_type of ContestItem (contest/models.py:264-271) replaces
\* the field of that name in the class body, so ContestItem.objects.filter(
\* ..., item_type=item_type) raises FieldError for every request that comes
\* as far as the duplicate check: code 500, no row is created ----
AddItem(u, c, item_id, fields_valid) ==
    LET cs == MiddlewareUpdate(contests, now)
        code == IF ~IsManager(u, c) THEN 403
                ELSE IF cs[c].state \notin {"DRAFT", "SCHEDULED"} THEN 400
                ELSE IF ~fields_valid THEN 400
                ELSE IF item_id \notin Problems THEN 404
                ELSE 500
    IN /\ contests' = cs
       /\ response' = Answer("add_item", u, c, item_id, 0, code)
       /\ board' = NoBoard
       /\ UNCHANGED <<judge_vars, results, run, listing, subs, contest_items, participants, now>>

\* ---- RemoveContestItemView.delete (contest/views.py:600-640); the
\* submissions of the item go with it (on_delete=CASCADE) ----
RemoveItem(u, c, item_id) ==
    LET cs == MiddlewareUpdate(contests, now)
        found == {it \in contest_items : it.id = item_id /\ it.contest = c}
        code == IF ~IsManager(u, c) THEN 403
                ELSE IF found = {} THEN 404
                ELSE 200
    IN /\ contests' = cs
       /\ contest_items' = IF code = 200 THEN contest_items \ found ELSE contest_items
       /\ subs' = IF code = 200
                  THEN SelectSeq(subs, LAMBDA row : row.contest_item # item_id)
                  ELSE subs
       /\ response' = Answer("remove_item", u, c, Absent, item_id, code)
       /\ board' = NoBoard
       /\ UNCHANGED <<judge_vars, results, run, listing, participants, now>>

\* the states contest rows are stored with
ContestInit ==
    /\ test_cases = [p \in Problems |-> 0]
    /\ submissions = <<>>
    /\ statistics = [u \in StatsUsers |-> 0]
    /\ results = {}
    /\ run = NoRun
    /\ listing = NoListing
    /\ req = [r \in Requests |-> IdleRequest]
    /\ subs = <<>>
    /\ \E state \in [Contests -> STATE_CHOICES] :
          contests = [c \in Contests |->
                         [NewContest(c) EXCEPT !.state = state[c],
                                               !.is_published = (state[c] # "DRAFT")]]
    /\ contest_items = {[id |-> 1, contest |-> "c1", problem |-> "p1", score |-> 100]}
    /\ participants = [c \in Contests |-> {"u1"}]
    /\ now = 0
    /\ response = NoResponse
    /\ board = NoBoard

ContestNext ==
    \/ \E c \in Contests, new_state \in STATE_CHOICES : ContestSave(c, new_state)
    \/ ContestStateMiddleware
    \/ \E u \in Users, c \in Contests : Publish(u, c)
    \/ \E u \in Users, c \in Contests : Update(u, c)
    \/ \E u \in Users, c \in Contests, item_id \in Problems \cup {NoSuchProblem},
          fields_valid \in BOOLEAN : AddItem(u, c, item_id, fields_valid)
    \/ \E u \in Users, c \in Contests, item_id \in ContestItemIdInputs \ {0} :
            RemoveItem(u, c, item_id)
    \/ \E u \in Users, c \in Contests, problem_slug \in ProblemIdInputs,
          problem_id \in ProblemIdInputs, contest_item_id \in ContestItemIdInputs,
          fields_valid \in BOOLEAN :
            ContestSubmissionCreate(u, c, problem_slug, problem_id,
                                    contest_item_id, fields_valid)
    \/ Tick

ContestSpec == ContestInit /\ [][ContestNext]_vars

\* ---- one testcase of run_judge, with its timing ----

\* timeout=2 of subprocess.run, in seconds
Timeout == 2

\* submissions.languages.LANGUAGE_CONFIG: the registered languages
LANGUAGE_CONFIG == {"PY", "CPP", "JAVA"}
\* submissions.models.Submission.LANGUAGE_CHOICES
LANGUAGE_CHOICES == {"PYTHON", "JAVA", "CPP", "C", "JS"}
\* judge.models.Submission.LANGUAGE_CHOICES
JudgeLanguageChoices == {"python", "cpp", "java"}
\* request.data.get('language') of a request that came past the check
\* 'not language' of SubmissionView.post: any string that is not empty
PostedLanguages == LANGUAGE_CHOICES \cup JudgeLanguageChoices \cup {"ruby"}

\* judge.models.Problem.time_limit_ms (default 1000), in seconds
TimeLimits == {1, 3}

\* what subprocess.run(..., timeout=2) can yield for a program that needs
\* elapsed seconds: TimeoutExpired once the timeout passed, the program's
\* own result before; at the very timeout either
TimedOutcomes(elapsed) ==
    {raw \in RawOutcomes :
        /\ raw.exc = "TimeoutExpired" => elapsed >= Timeout
        /\ raw.exc = "none" => elapsed <= Timeout}

\* ---- SubmissionView.run_judge, one iteration of the loop
\* (judge/views.py:82-98) for a submission in the given language to a
\* problem of the given time limit ----
RunJudgeTest(language, time_limit, elapsed, raw) ==
    /\ raw \in TimedOutcomes(elapsed)
    /\ run' = [language |-> language, time_limit |-> time_limit, elapsed |-> elapsed,
               executed |-> TRUE, exc |-> raw.exc, status |-> JudgeTest(raw)]
    /\ UNCHANGED <<judge_vars, results, listing, submit_vars>>

RunNext ==
    \E language \in PostedLanguages, time_limit \in TimeLimits,
       elapsed \in 0..MaxElapsed, raw \in RawOutcomes :
        RunJudgeTest(language, time_limit, elapsed, raw)

RunSpec == Init /\ [][RunNext]_vars

\* ---- the results of a submission ----

\* a user with is_superuser
Superusers == {"root"}
ResultUsers == Users \cup Superusers

\* Python's None in a serialized field
None == "None"

\* Contest.is_live, Contest.is_ended (contest/models.py:139-144)
IsLive(contest) ==
    contest.state = "LIVE" /\ contest.start_time <= now /\ now < contest.end_time
IsEnded(contest) == contest.state = "ENDED" \/ now >= contest.end_time

\* SubmissionResult.can_view_details (submissions/models.py:255-282);
\* submission is the row obj.submission
CanViewDetails(obj, submission, user) ==
    IF user \in Superusers THEN TRUE
    ELSE IF user = submission.user THEN TRUE
    ELSE IF submission.contest # Absent
         THEN IF IsManager(user, submission.contest) THEN TRUE
              ELSE IF IsLive(contests[submission.contest]) THEN obj.is_sample
              ELSE IF IsEnded(contests[submission.contest]) THEN TRUE
              ELSE FALSE
         ELSE FALSE

\* SubmissionResultSerializer._is_contest_ongoing (submissions/serializers.py:72-77)
IsContestOngoing(submission) ==
    IF submission.contest = Absent THEN FALSE
    ELSE now < contests[submission.contest].end_time

\* get_test_case_input and get_expected_output_value
\* (submissions/serializers.py:36-58): value is the cached field of the row
GetAuthorized(obj, submission, user, value) ==
    IF ~CanViewDetails(obj, submission, user) THEN None ELSE value

GetHiddenUntimed(obj, submission, user, value) ==
    IF ~CanViewDetails(obj, submission, user) THEN None ELSE value

GetHidden(obj, submission, user, value) ==
    IF ~CanViewDetails(obj, submission, user) THEN None
    ELSE IF IsContestOngoing(submission) /\ ~obj.is_sample THEN None
    ELSE value

\* SubmissionResultSerializer: the fields of one serialized row
Serialize(obj, submission, user) ==
    [id |-> obj.id,
     is_sample |-> obj.is_sample,
     test_case_input |-> GetHidden(obj, submission, user, obj.input_data),
     expected_output_value |-> GetHidden(obj, submission, user, obj.expected_output),
     actual_output_value |-> GetAuthorized(obj, submission, user, obj.actual_output)]

\* submission.results.all().order_by('id')
RECURSIVE ById(_)
ById(rows) ==
    IF rows = {} THEN <<>>
    ELSE LET first == CHOOSE x \in rows : \A y \in rows : x.id <= y.id
         IN <<first>> \o ById(rows \ {first})

\* ---- SubmissionResultListView.get (submissions/views.py:160-186) ----
ResultListGet(u, submission_id) ==
    /\ listing' =
          IF submission_id \notin 1..Len(subs) THEN [code |-> 404, rows |-> <<>>]
          ELSE LET submission == subs[submission_id]
                   is_owner == submission.user = u
                   is_manager == \/ u \in Superusers
                                 \/ /\ submission.contest # Absent
                                    /\ IsManager(u, submission.contest)
                   rows == ById({x \in results : x.submission = submission_id})
               IN IF ~is_owner /\ ~is_manager THEN [code |-> 403, rows |-> <<>>]
                  ELSE [code |-> 200,
                        rows |-> [i \in 1..Len(rows) |->
                                     Serialize(rows[i], submission, u)]]
    /\ contests' = MiddlewareUpdate(contests, now)
    /\ response' = NoResponse
    /\ board' = NoBoard
    /\ UNCHANGED <<judge_vars, results, run, subs, contest_items, participants, now>>

\* one stored submission, made for a problem in contest c1 or in practice,
\* with a sample and a hidden SubmissionResult row
ResultInit ==
    /\ test_cases = [p \in Problems |-> 0]
    /\ submissions = <<>>
    /\ statistics = [u \in StatsUsers |-> 0]
    /\ req = [r \in Requests |-> IdleRequest]
    /\ \E u \in Users, c \in {"c1", Absent} :
          subs = <<[user |-> u, problem |-> "p1", contest_item |-> 0, contest |-> c,
                    status |-> "WA", created_at |-> 0]>>
    /\ results = {[id |-> 1, submission |-> 1, is_sample |-> TRUE, input_data |-> "in 1",
                   expected_output |-> "out 1", actual_output |-> "out 1"],
                  [id |-> 2, submission |-> 1, is_sample |-> FALSE, input_data |-> "in 2",
                   expected_output |-> "out 2", actual_output |-> "out"]}
    /\ run = NoRun
    /\ listing = NoListing
    /\ \E state \in STATE_CHOICES :
          contests = [c \in Contests |->
                         IF c = "c1"
                         THEN [NewContest(c) EXCEPT !.state = state,
                                                    !.is_published = (state # "DRAFT")]
                         ELSE NewContest(c)]
    /\ contest_items = {[id |-> 1, contest |-> "c1", problem |-> "p1", score |-> 100]}
    /\ participants = [c \in Contests |-> {"u1"}]
    /\ now = 0
    /\ response = NoResponse
    /\ board = NoBoard

ResultNext ==
    \/ \E u \in ResultUsers, submission_id \in 1..MaxSubs : ResultListGet(u, submission_id)
    \/ Tick

ResultSpec == ResultInit /\ [][ResultNext]_vars

\* ---- helpers of the properties ----
\* the per-testcase verdict of the i-th executed testcase of request r
TestVerdict(r, i) == JudgeTest(req[r].trace[i][1])

\* the executed testcases of request r that did not pass
Failures(r) == {i \in 1..Len(req[r].trace) : TestVerdict(r, i) # "continue"}

FirstFailure(r) == CHOOSE k \in Failures(r) : \A j \in Failures(r) : k <= j

\* run_judge of request r has returned and its result is not stored yet
Judged(r) == req[r].pc = "save"

\* the step stores the result of request r (lines 64-65)
Stores(r) == req[r].pc = "save" /\ req'[r].pc # "save"

\* C1: run_judge returns 'Accepted' iff every testcase of the list passed;
\* otherwise it returns the verdict of the first testcase that did not pass,
\* and that testcase is the last one executed.
C1_FirstFailurePolicy ==
    \A r \in Requests : Judged(r) =>
        /\ req[r].final_status = "Accepted"
              <=> (Failures(r) = {} /\ Len(req[r].trace) = req[r].n)
        /\ Failures(r) # {} =>
              /\ req[r].final_status = TestVerdict(r, FirstFailure(r))
              /\ Len(req[r].trace) = FirstFailure(r)

\* a run over two testcases that stopped at the first one
C1_Witness ==
    \E r \in Requests :
        /\ Judged(r)
        /\ req[r].n = 2
        /\ Len(req[r].trace) = 1
        /\ req[r].final_status = "Wrong Answer"

\* ---- C2 ----
\* the statuses of submissions.Submission that are not a verdict
Unjudged == {"PENDING", "RUNNING"}

\* C2: every submission that is created eventually holds a terminal verdict
\* (stated for the rows of SubmissionCreateView and ContestSubmissionCreateView)
C2_EventuallyTerminal ==
    \A i \in 1..MaxSubs :
        [](Len(subs) >= i => <>(Len(subs) >= i /\ subs[i].status \notin Unjudged))

\* ---- C3 ----
\* the verdicts run_judge can return
JudgeVerdicts == {"Accepted", "Wrong Answer", "Time Limit Exceeded", "Runtime Error"}

ResultsOf(rows, i) == {x \in rows : x.submission = i}

C5_RowPerExecutedTest ==
    [][\A r \in Requests : Stores(r) =>
          Cardinality(ResultsOf(results', req[r].submission)) = Len(req[r].trace)]_vars

\* ---- C6 ----
\* C6: a program that does not compile gets the verdict 'Compilation Error'
\* and none of the testcases is run.
C6_CompileError ==
    \A r \in Requests : (Judged(r) /\ ~req[r].compiles) =>
        /\ req[r].final_status = "Compilation Error"
        /\ req[r].trace = <<>>

\* ---- C7 ----
\* the execution call of the last executed testcase of request r raised
ExecutorFailed(r) ==
    /\ req[r].trace # <<>>
    /\ req[r].trace[Len(req[r].trace)][1].exc = "Exception"

C8_RetryOnce ==
    \A r \in Requests : Judged(r) =>
        \A i \in 1..Len(req[r].trace) :
            (/\ req[r].trace[i][1].exc = "Exception"
             /\ JudgeTest(req[r].trace[i][2]) = "continue")
            => (i < Len(req[r].trace) \/ req[r].final_status = "Accepted")

\* ---- C9 ----
\* request r is between creating its submission and returning the response
InFlight(r) == req[r].submission # 0

\* C9: a judging run is bound to a submission id that no run had before and
\* keeps it; two runs never share an id; and a step that writes the status
\* of a submission is the storing step of the run bound to it.
C9_OneRunPerSubmission ==
    /\ [](\A r1, r2 \in Requests :
            (r1 # r2 /\ InFlight(r1) /\ InFlight(r2)) =>
                req[r1].submission # req[r2].submission)
    /\ [][/\ \A r \in Requests :
               /\ (~InFlight(r) /\ req'[r].submission # 0) =>
                      req'[r].submission \notin DOMAIN submissions
               /\ InFlight(r) => req'[r].submission \in {req[r].submission, 0}
          /\ \A i \in DOMAIN submissions :
               submissions'[i].status # submissions[i].status =>
                   \E r \in Requests : Stores(r) /\ req[r].submission = i]_vars

\* two runs for the same user and problem are judging at the same time
C9_Witness ==
    \E r1, r2 \in Requests :
        /\ r1 # r2
        /\ req[r1].pc = "loop" /\ req[r2].pc = "save"
        /\ req[r1].user = req[r2].user
        /\ req[r1].problem = req[r2].problem

\* ---- C10 ----
\* the submissions of user u stored as accepted
AcceptedOf(u) ==
    {i \in DOMAIN submissions :
        submissions[i].user = u /\ submissions[i].status = "Accepted"}

C11_SingleTarget ==
    \A i \in 1..Len(subs) :
        /\ (subs[i].problem # Absent) # (subs[i].contest_item # 0)
        /\ subs[i].contest_item # 0 =>
               /\ subs[i].contest # Absent
               /\ \E it \in contest_items :
                      it.id = subs[i].contest_item /\ it.contest = subs[i].contest

\* rows of all three shapes are stored: practice, contest problem, contest item
C11_Witness ==
    /\ Len(subs) = MaxSubs
    /\ \E i \in 1..Len(subs) : subs[i].contest_item # 0 /\ subs[i].contest = "c1"
    /\ \E i \in 1..Len(subs) : subs[i].problem # Absent /\ subs[i].contest # Absent


\* ---- what the leaderboard claims speak of, read off the stored rows ----

\* the problems a user has an accepted submission for in a contest
SolvedBy(c, u) ==
    {subs[i].problem : i \in {j \in 1..Len(subs) :
        subs[j].contest = c /\ subs[j].status = "AC" /\ subs[j].user = u}}

HasItem(c, p) == \E it \in contest_items : it.contest = c /\ it.problem = p
\* ContestItem.score of the problem in the contest
ContestScore(c, p) ==
    (CHOOSE it \in contest_items : it.contest = c /\ it.problem = p).score

RECURSIVE SumScores(_, _)
SumScores(c, solved) ==
    IF solved = {} THEN 0
    ELSE LET p == CHOOSE x \in solved : TRUE
         IN ContestScore(c, p) + SumScores(c, solved \ {p})

\* the time of the first accepted submission of a user for a problem
FirstAC(c, u, p) ==
    CHOOSE t \in 0..MaxTime :
        /\ \E i \in 1..Len(subs) :
              /\ subs[i].contest = c /\ subs[i].status = "AC"
              /\ subs[i].user = u /\ subs[i].problem = p /\ subs[i].created_at = t
        /\ \A i \in 1..Len(subs) :
              (subs[i].contest = c /\ subs[i].status = "AC"
               /\ subs[i].user = u /\ subs[i].problem = p) => subs[i].created_at >= t

RECURSIVE SumPenalty(_, _, _)
SumPenalty(c, u, solved) ==
    IF solved = {} THEN 0
    ELSE LET p == CHOOSE x \in solved : TRUE
         IN (FirstAC(c, u, p) - contests[c].start_time) + SumPenalty(c, u, solved \ {p})

\* total penalty: time from the contest's start to the first accepted
\* submission, summed over the solved problems
Penalty(c, u) == SumPenalty(c, u, SolvedBy(c, u))

\* the place of a user in a sequence of entries
PlaceOf(entries, u) == CHOOSE i \in 1..Len(entries) : entries[i].user = u

\* C12: in a leaderboard every (participant, problem) pair with an accepted
\* submission counts the problem's contest score once, and total_score is
\* the sum of the contest scores of the solved problems
C12_FullScoreOnce ==
    board.code = 200 =>
        /\ \A u \in Users : SolvedBy(board.contest, u) # {} =>
               \E i \in 1..Len(board.rows) : board.rows[i].user = u
        /\ \A i \in 1..Len(board.rows) :
               LET solved == SolvedBy(board.contest, board.rows[i].user)
               IN (\A p \in solved : HasItem(board.contest, p)) =>
                      board.rows[i].total_score = SumScores(board.contest, solved)

\* C13: the leaderboard is ordered by total score descending and, for equal
\* total score, by total penalty ascending
C13_PenaltyTieBreak ==
    board.code = 200 =>
        \A i, j \in 1..Len(board.rows) : i < j =>
            \/ board.rows[i].total_score > board.rows[j].total_score
            \/ /\ board.rows[i].total_score = board.rows[j].total_score
               /\ Penalty(board.contest, board.rows[i].user)
                      <= Penalty(board.contest, board.rows[j].user)

\* C14: two entries of equal total score and equal penalty stand in the
\* leaderboard in the order they had in the sequence that was sorted
C14_StableRanking ==
    board.code = 200 =>
        \A i, j \in 1..Len(board.rows) :
            (/\ i < j
             /\ board.rows[i].total_score = board.rows[j].total_score
             /\ Penalty(board.contest, board.rows[i].user)
                    = Penalty(board.contest, board.rows[j].user))
            => PlaceOf(Build(AcRows(board.contest), <<>>), board.rows[i].user)
                  < PlaceOf(Build(AcRows(board.contest), <<>>), board.rows[j].user)

\* a leaderboard of two users of equal score and equal penalty was returned
C14_Witness ==
    /\ board.code = 200
    /\ Len(board.rows) = 2
    /\ board.rows[1].total_score = board.rows[2].total_score
    /\ Penalty(board.contest, board.rows[1].user) = Penalty(board.contest, board.rows[2].user)

\* C15: every participant of the contest is in its leaderboard, one without
\* an accepted submission with total score 0 and after every entry of
\* positive score
C15_EveryParticipantListed ==
    board.code = 200 =>
        \A u \in participants[board.contest] :
            \E i \in 1..Len(board.rows) :
                /\ board.rows[i].user = u
                /\ SolvedBy(board.contest, u) = {} =>
                       /\ board.rows[i].total_score = 0
                       /\ \A j \in 1..Len(board.rows) :
                              board.rows[j].total_score > 0 => j < i


\* ---- what the contest claims speak of ----

\* the state changes the Contest docstring allows
AllowedTransitions ==
    {<<"DRAFT", "SCHEDULED">>, <<"DRAFT", "ARCHIVED">>, <<"SCHEDULED", "LIVE">>,
     <<"SCHEDULED", "ARCHIVED">>, <<"LIVE", "ENDED">>, <<"ENDED", "ARCHIVED">>}

\* the contests as the view of a request finds them
AtView == MiddlewareUpdate(contests, now)

ItemsOf(items, c) == {it \in items : it.contest = c}

\* C16: Contest.save() of a contest whose state was changed from s to t
\* stores t if (s, t) is an allowed transition and otherwise raises a
\* ValidationError and leaves s stored
C16_SaveTransitions ==
    [][(response'.op = "save"
        /\ response'.arg # contests[response'.contest].state) =>
          LET c == response'.contest
          IN IF <<contests[c].state, response'.arg>> \in AllowedTransitions
             THEN contests'[c].state = response'.arg /\ response'.code = 200
             ELSE contests'[c].state = contests[c].state /\ response'.code = 400]_vars

\* C17: a publish request of a manager for a DRAFT contest with an item
\* succeeds and stores SCHEDULED with is_published; any other publish
\* request leaves the contest as it was
C17_Publish ==
    [][response'.op = "publish" =>
          LET c == response'.contest
          IN IF /\ IsManager(response'.user, c)
                /\ AtView[c].state = "DRAFT"
                /\ ItemsOf(contest_items, c) # {}
             THEN /\ response'.code = 200
                  /\ contests'[c].state = "SCHEDULED"
                  /\ contests'[c].is_published
             ELSE contests'[c] = AtView[c]]_vars

\* C18: once the middleware ran for a request at time now, a contest that
\* was SCHEDULED inside its window is LIVE and a contest that was SCHEDULED
\* or LIVE with its end_time reached is ENDED
C18_StatesCurrent ==
    [][response'.op \notin {"none", "save"} =>
          \A c \in Contests :
              /\ (/\ contests[c].state = "SCHEDULED"
                  /\ contests[c].start_time <= now
                  /\ now < contests[c].end_time) => contests'[c].state = "LIVE"
              /\ (/\ contests[c].state \in {"SCHEDULED", "LIVE"}
                  /\ contests[c].end_time <= now) => contests'[c].state = "ENDED"]_vars

\* C19: ContestSubmissionCreateView stores a submission only for a LIVE
\* contest inside its window, for a participant of the contest and a
\* problem that is an item of the contest
C19_SubmissionGuard ==
    [][(response'.op = "submit" /\ Len(subs') > Len(subs)) =>
          LET c == response'.contest
          IN /\ AtView[c].state = "LIVE"
             /\ AtView[c].start_time <= now /\ now < AtView[c].end_time
             /\ response'.user \in participants[c]
             /\ \E it \in contest_items :
                    it.contest = c /\ it.problem = response'.arg]_vars

\* C20: an update, add-item or remove-item request for a contest that is
\* LIVE, ENDED or ARCHIVED changes neither the contest nor its items
C20_ReadOnly ==
    [][response'.op \in {"update", "add_item", "remove_item"} =>
          LET c == response'.contest
          IN AtView[c].state \in {"LIVE", "ENDED", "ARCHIVED"} =>
                /\ contests'[c] = AtView[c]
                /\ ItemsOf(contest_items', c) = ItemsOf(contest_items, c)]_vars


TimeMultiplier(language) == IF language = "CPP" THEN 1 ELSE 2

\* C22: an executed testcase is classified Time Limit Exceeded exactly when
\* the elapsed time reaches the problem's time limit times the language's
\* time multiplier
C22_ScaledTimeLimit ==
    (run.executed /\ run.language \in LANGUAGE_CONFIG /\ run.exc # "Exception") =>
        (run.status = "Time Limit Exceeded"
            <=> run.elapsed >= run.time_limit * TimeMultiplier(run.language))

\* C23: no testcase is executed and given a verdict for a submission whose
\* language is not registered, and a language a Submission may carry is
\* registered
C23_RegisteredLanguage ==
    /\ run.executed => run.language \in LANGUAGE_CONFIG
    /\ run.language \in LANGUAGE_CHOICES => run.language \in LANGUAGE_CONFIG

\* the place of a state in the order DRAFT < SCHEDULED < LIVE < ENDED < ARCHIVED
StateRank(state) ==
    CASE state = "DRAFT" -> 0
      [] state = "SCHEDULED" -> 1
      [] state = "LIVE" -> 2
      [] state = "ENDED" -> 3
      [] OTHER -> 4

\* C24: no step (Contest.save, a publish request, a run of the middleware
\* ahead of any request) moves a contest's stored state backward in the order
\* DRAFT < SCHEDULED < LIVE < ENDED < ARCHIVED, and a run of the middleware
\* leaves every DRAFT, ENDED and ARCHIVED contest in its state
C24_NeverBackward ==
    [][\A c \in Contests :
          /\ StateRank(contests'[c].state) >= StateRank(contests[c].state)
          /\ contests[c].state \in {"DRAFT", "ENDED", "ARCHIVED"} =>
                MiddlewareUpdate(contests, now)[c].state = contests[c].state]_vars

\* the middleware has just run past the end of c1, which it has ENDED, with
\* c2 inside its window and stored in a state the middleware leaves alone
C24_Witness ==
    /\ response.op = "request"
    /\ now >= contests["c1"].end_time
    /\ contests["c1"].state = "ENDED"
    /\ now >= contests["c2"].start_time /\ now < contests["c2"].end_time
    /\ contests["c2"].state \in {"DRAFT", "ARCHIVED"}

\* no request is inside SubmissionView.post
Quiescent == \A r \in Requests : req[r].pc \in {"idle", "done"}

\* C25: when two requests of one user, run concurrently, have both been
\* answered and both submissions are Accepted, the user's total_solved is its
\* initial value, 0, plus 2, whatever the interleaving of the two reads of
\* total_solved and the two stats.save()
C25_NoLostIncrement ==
    \A u \in DOMAIN statistics :
        (/\ \A r \in Requests : req[r].pc = "done" /\ req[r].response = 201
         /\ Cardinality(AcceptedOf(u)) = 2) =>
            statistics[u] = 2

\* C26: under sequential processing, whenever no request is in progress, the
\* total_solved of a user is its initial value, 0, plus the number of the
\* user's submissions stored as Accepted, two accepted submissions to one
\* problem counting twice
C26_CountsAcceptedSubmissions ==
    Quiescent =>
        \A u \in DOMAIN statistics : statistics[u] = Cardinality(AcceptedOf(u))

\* two accepted submissions of u1 to the same problem, counted twice
C26_Witness ==
    /\ Quiescent
    /\ statistics["u1"] = 2
    /\ \E i, j \in DOMAIN submissions :
        /\ i # j
        /\ submissions[i].user = "u1" /\ submissions[j].user = "u1"
        /\ submissions[i].problem = submissions[j].problem
        /\ submissions[i].status = "Accepted" /\ submissions[j].status = "Accepted"

====
